---- MODULE Spec2Model ----
(***************************************************************************)
(* Model of the pronunciation-analysis workflow of the Chinese learning    *)
(* backend (PronunciationService.analyzePronunciation and its helpers),    *)
(* with the two relational tables it writes and the storage / AI adapters  *)
(* it calls.                                                               *)
(*                                                                         *)
(* Numbers: a JavaScript score is kept in hundredths (85.55 is 8555), so   *)
(* that a value with more than one fractional digit can be told from its   *)
(* rounding into a decimal(3,1) column.  A decimal(3,1) column therefore   *)
(* always holds a multiple of 10 below 10000.                              *)
(*                                                                         *)
(* Every await of the workflow is one action; every await can reject, so   *)
(* every step has a succeeding and a failing action.                       *)
(***************************************************************************)
EXTENDS Integers, Sequences, FiniteSets, TLC

(* ---------------------------- bounds ----------------------------------- *)

\* number of submissions (runs of analyzePronunciation) that may overlap
NumRuns == 2

Runs == 1 .. NumRuns

(* ---------------------------- inputs ----------------------------------- *)

\* request.userId: "" stands for an absent userId (both are falsy in
\* `if (request.userId)`)
NoUser == ""
RequestUserIds == {NoUser, "u1"}

\* request.audioBuffer
Audios == {"a1"}

\* parsed.overallScore values the model's JSON may carry, in hundredths:
\* two fractional digits, above range
ParsedScores == {8555, 12000}

\* messages of the errors a rejected database call carries; a driver error
\* can carry an empty message (e.g. an AggregateError on a refused connection)
DbMessages == {"", "db"}

\* message of the error a rejected HTTP call carries
NetMessages == {"net"}

(* ------------------------- pure functions ------------------------------ *)

Max(a, b) == IF a >= b THEN a ELSE b
Min(a, b) == IF a <= b THEN a ELSE b

\* Math.max(0, Math.min(100, parsed.overallScore || 0))
ClampScore(parsed) == Max(0, Min(10000, parsed))

\* value a decimal(3,1) column stores for x >= 0: rounded to one fractional
\* digit (half away from zero)
Decimal31(x) == ((x + 5) \div 10) * 10

\* a decimal(3,1) column holds at most 99.9: storing a value that rounds to
\* 100.0 or more raises "numeric field overflow"
Decimal31Overflows(x) == Decimal31(x) >= 10000

\* PinataService.uploadAudio: the content hash the pinning service returns
IpfsHashOf(audio) == "Qm" \o audio

\* PinataService.getPublicUrl
getPublicUrl(ipfsHash) == "https://gw/ipfs/" \o ipfsHash

\* an Error object: where it was created, and its message
MkError(origin, message) == [origin |-> origin, message |-> message]

\* error instanceof Error ? error.message : String(error)
ErrorMessageOf(error) == error.message

\* mutant of SetErrorMessage: the message is never persisted
SetErrorMessage_dropped(old, errorMessage) == old

\* `errorMessage || undefined` as a column assignment: an undefined property
\* is left out of the UPDATE, so the column keeps its value
SetErrorMessage(old, errorMessage) ==
    IF errorMessage # "" THEN <<errorMessage>> ELSE old

\* mutant of NewAverageScore: the stored average is not weighted by the
\* number of attempts it stands for
NewAverageScore_unweighted(currentAverage, totalAttempts, newScore) ==
    LET num == currentAverage + newScore
        den == 10 * (IF totalAttempts = 0 THEN 1 ELSE 2)
    IN  ((2 * num + den) \div (2 * den)) * 10

\* Math.round((currentAverage * totalAttempts + newScore) / newTotal * 10) / 10
\* with currentAverage and newScore in hundredths; the result is in
\* hundredths. The arithmetic here is exact; the program's is binary floating
\* point, which gives the same tenth on every score enumerated below.
NewAverageScore(currentAverage, totalAttempts, newScore) ==
    LET num == currentAverage * totalAttempts + newScore
        den == 10 * (totalAttempts + 1)
    IN  ((2 * num + den) \div (2 * den)) * 10

(* ------------------------------ state ---------------------------------- *)

VARIABLES
    attempts,      \* pronunciation_attempts table: run id -> <<>> or <<row>>
    users,         \* users table: id -> row
    run,           \* the local state of each run of analyzePronunciation
    pinned,        \* hashes pinned in the storage network
    pinataCalls,   \* PinataService operations invoked so far
    gemini,        \* a call of GeminiService.parseAnalysisResult: text, result
    query,         \* a call of a query operation: arguments, result
    app            \* the configuration and the providers constructed from it

\* Fields of run[w]: pc is the await the run is at ("idle" before the call,
\* "returned" / "raised" after it); userId and audio are the request;
\* ipfsResult, userLevel, analysisResult, finalAttempt and user are the
\* locals of the try block; error is the error the catch clause caught.
\* History kept for the properties: steps lists the workflow steps 1..7
\* executed so far as <<step, succeeded>>; handled tells whether the catch
\* clause's status write ran and succeeded; raised is the error the caller
\* received; response is the value the caller received.

vars == <<attempts, users, run, pinned, pinataCalls, gemini, query, app>>

\* averageScore is nullable and has no default
NullScore == -1

ZeroAnalysis ==
    [overallScore |-> 0, toneAccuracy |-> 0, pronunciationErrors |-> <<>>,
     suggestions |-> <<>>, detailedFeedback |-> ""]

NoIpfs == [ipfsHash |-> "", audioUrl |-> ""]

\* the configuration values the providers read, and the providers
ConfigKeys ==
    {"PINATA_JWT", "PINATA_GATEWAY_URL", "GEMINI_API_KEY", "ELEVENLABS_API_KEY",
     "DATABASE_URL"}
Providers == {"PinataService", "ElevenLabsService", "GeminiService", "DatabaseConfig"}

\* the application once every provider is constructed from a configuration
\* that sets every value
ReadyApp ==
    [config |-> [k \in ConfigKeys |-> "set"],
     built |-> Providers,
     options |-> <<[url |-> "set"]>>,
     error |-> MkError("none", "")]

\* no parseAnalysisResult call / no query call under way
NoGeminiCall == [pc |-> "none", analysisText |-> <<>>, result |-> <<>>]
NoQuery ==
    [op |-> "none", pc |-> "none", userId |-> "", id |-> 0, page |-> 0,
     limit |-> 0, result |-> <<>>, error |-> MkError("none", "")]
NoError == MkError("none", "")

InitialUsers ==
    [u \in {"u1", "u2"} |->
        [level |-> IF u = "u1" THEN "HSK1" ELSE "HSK4",
         totalAttempts |-> 0,
         averageScore |-> NullScore]]

IdleRun ==
    [pc |-> "idle", userId |-> NoUser, audio |-> "a1",
     ipfsResult |-> NoIpfs, userLevel |-> "", analysisResult |-> ZeroAnalysis,
     finalAttempt |-> <<>>, user |-> <<>>,
     error |-> NoError, handled |-> "no", raised |-> NoError,
     response |-> <<>>, steps |-> <<>>]

Init ==
    /\ attempts = [w \in Runs |-> <<>>]
    /\ users = InitialUsers
    /\ run = [w \in Runs |-> IdleRun]
    /\ pinned = {}
    /\ pinataCalls = {}
    /\ gemini = NoGeminiCall
    /\ query = NoQuery
    /\ app = ReadyApp

(* ----------------------- repository operations ------------------------- *)

Row(w) == attempts[w][1]
HasRow(w) == attempts[w] # <<>>

\* pronunciationRepository.update(attemptId, partial)
UpdateRow(w, row) == attempts' = [attempts EXCEPT ![w] = <<row>>]

\* the run's locals once control has left the try block (they are declared
\* inside it): only the request, the attempt id, the error and the history
\* remain
Ended(r, pc) ==
    [r EXCEPT !.pc = pc, !.ipfsResult = NoIpfs, !.userLevel = "",
              !.analysisResult = ZeroAnalysis, !.finalAttempt = <<>>,
              !.user = <<>>]

\* the try block's catch: the error is bound and the handler runs next
Throw(w, step, error) ==
    run' = [run EXCEPT ![w] =
               [Ended(@, "catch") EXCEPT
                   !.error = error, !.steps = Append(@, <<step, FALSE>>)]]

(* --------------------------- step 1 ------------------------------------ *)

\* the row createInitialAttempt builds and saves
InitialAttempt(userId) ==
    [userId |-> userId, processingStatus |-> "pending",
     audioFileUrl |-> "", ipfsHash |-> "",
     analysisResult |-> ZeroAnalysis, overallScore |-> 0,
     errorMessage |-> <<>>]

\* mutant of createInitialAttempt: the save also clears the failed rows of
\* the other submissions
createInitialAttempt_clears(w) ==
    /\ run[w].pc = "idle"
    /\ \E userId \in RequestUserIds, audio \in Audios :
          /\ attempts' = [v \in Runs |->
                            IF v = w THEN <<InitialAttempt(userId)>>
                            ELSE IF HasRow(v) /\ Row(v).processingStatus = "failed"
                                 THEN <<>>
                                 ELSE attempts[v]]
          /\ run' = [run EXCEPT ![w].pc = "step2", ![w].userId = userId,
                                ![w].audio = audio,
                                ![w].steps = Append(@, <<1, TRUE>>)]
    /\ UNCHANGED <<users, pinned, pinataCalls, gemini, query, app>>

createInitialAttempt(w) ==
    /\ run[w].pc = "idle"
    /\ \E userId \in RequestUserIds, audio \in Audios :
          /\ attempts' = [attempts EXCEPT ![w] = <<InitialAttempt(userId)>>]
          /\ run' = [run EXCEPT ![w].pc = "step2", ![w].userId = userId,
                                ![w].audio = audio,
                                ![w].steps = Append(@, <<1, TRUE>>)]
    /\ UNCHANGED <<users, pinned, pinataCalls, gemini, query, app>>

\* mutant of createInitialAttemptFails: the rejected save leaves the row
createInitialAttemptFails_leavesRow(w) ==
    /\ run[w].pc = "idle"
    /\ \E userId \in RequestUserIds, audio \in Audios, m \in DbMessages :
          /\ attempts' = [attempts EXCEPT ![w] = <<InitialAttempt(userId)>>]
          /\ run' = [run EXCEPT ![w].pc = "raised", ![w].userId = userId,
                                ![w].audio = audio,
                                ![w].raised = MkError("createInitialAttempt", m),
                                ![w].steps = Append(@, <<1, FALSE>>)]
    /\ UNCHANGED <<users, pinned, pinataCalls, gemini, query, app>>

\* the save rejects: the call is outside the try block, the error goes
\* straight to the caller
createInitialAttemptFails(w) ==
    /\ run[w].pc = "idle"
    /\ \E userId \in RequestUserIds, audio \in Audios, m \in DbMessages :
          run' = [run EXCEPT ![w].pc = "raised", ![w].userId = userId,
                             ![w].audio = audio,
                             ![w].raised = MkError("createInitialAttempt", m),
                             ![w].steps = Append(@, <<1, FALSE>>)]
    /\ UNCHANGED <<attempts, users, pinned, pinataCalls, gemini, query, app>>

(* --------------------------- step 2 ------------------------------------ *)

\* mutant of updateProcessingStatus: marking a row failed also rolls the
\* upload back
updateProcessingStatus_rollsBack(row, status, errorMessage) ==
    [row EXCEPT !.processingStatus = status,
                !.errorMessage = SetErrorMessage(@, errorMessage),
                !.audioFileUrl = IF status = "failed" THEN "" ELSE @,
                !.ipfsHash = IF status = "failed" THEN "" ELSE @]

\* the row after updateProcessingStatus(attemptId, status, errorMessage)
updateProcessingStatus(row, status, errorMessage) ==
    [row EXCEPT !.processingStatus = status,
                !.errorMessage = SetErrorMessage(@, errorMessage)]

\* mutant of markProcessing: the status change is recorded with a note in
\* errorMessage
markProcessing_withNote(w) ==
    /\ run[w].pc = "step2"
    /\ UpdateRow(w, updateProcessingStatus(Row(w), "processing", "started"))
    /\ run' = [run EXCEPT ![w].pc = "step3",
                          ![w].steps = Append(@, <<2, TRUE>>)]
    /\ UNCHANGED <<users, pinned, pinataCalls, gemini, query, app>>

markProcessing(w) ==
    /\ run[w].pc = "step2"
    /\ UpdateRow(w, updateProcessingStatus(Row(w), "processing", ""))
    /\ run' = [run EXCEPT ![w].pc = "step3",
                          ![w].steps = Append(@, <<2, TRUE>>)]
    /\ UNCHANGED <<users, pinned, pinataCalls, gemini, query, app>>

markProcessingFails(w) ==
    /\ run[w].pc = "step2"
    /\ \E m \in DbMessages : Throw(w, 2, MkError("updateProcessingStatus", m))
    /\ UNCHANGED <<attempts, users, pinned, pinataCalls, gemini, query, app>>

(* --------------------------- step 3 ------------------------------------ *)

uploadAudioToIPFS(w) ==
    /\ run[w].pc = "step3"
    /\ LET hash == IpfsHashOf(run[w].audio)
       IN  /\ pinned' = pinned \cup {hash}
           /\ run' = [run EXCEPT ![w].pc = "step4",
                         ![w].ipfsResult = [ipfsHash |-> hash,
                                            audioUrl |-> getPublicUrl(hash)],
                         ![w].steps = Append(@, <<3, TRUE>>)]
    /\ pinataCalls' = pinataCalls \cup {"uploadAudio", "getPublicUrl"}
    /\ UNCHANGED <<attempts, users, gemini, query, app>>

\* mutant of uploadAudioToIPFSFails: the upload error is swallowed and the
\* workflow goes on to step 4
uploadAudioToIPFSFails_swallowed(w) ==
    /\ run[w].pc = "step3"
    /\ run' = [run EXCEPT ![w].pc = "step4",
                          ![w].steps = Append(@, <<3, FALSE>>)]
    /\ pinataCalls' = pinataCalls \cup {"uploadAudio"}
    /\ UNCHANGED <<attempts, users, pinned, gemini, query, app>>

\* PinataService.uploadAudio wraps the HTTP error, uploadAudioToIPFS wraps it
\* again
uploadAudioToIPFSFails(w) ==
    /\ run[w].pc = "step3"
    /\ \E m \in NetMessages :
          Throw(w, 3, MkError("uploadAudioToIPFS",
                  "Failed to upload audio file: " \o "IPFS upload failed: " \o m))
    /\ pinataCalls' = pinataCalls \cup {"uploadAudio"}
    /\ UNCHANGED <<attempts, users, pinned, gemini, query, app>>

(* --------------------------- step 4 ------------------------------------ *)

\* mutant of withIPFS: only the URL is written
withIPFS_urlOnly(row, ipfsResult) ==
    [row EXCEPT !.audioFileUrl = ipfsResult.audioUrl]

\* the row after updateAttemptWithIPFS(attemptId, ipfsResult)
withIPFS(row, ipfsResult) ==
    [row EXCEPT !.ipfsHash = ipfsResult.ipfsHash,
                !.audioFileUrl = ipfsResult.audioUrl]

updateAttemptWithIPFS(w) ==
    /\ run[w].pc = "step4"
    /\ UpdateRow(w, withIPFS(Row(w), run[w].ipfsResult))
    /\ run' = [run EXCEPT ![w].pc = "step5",
                          ![w].steps = Append(@, <<4, TRUE>>)]
    /\ UNCHANGED <<users, pinned, pinataCalls, gemini, query, app>>

updateAttemptWithIPFSFails(w) ==
    /\ run[w].pc = "step4"
    /\ \E m \in DbMessages : Throw(w, 4, MkError("updateAttemptWithIPFS", m))
    /\ UNCHANGED <<attempts, users, pinned, pinataCalls, gemini, query, app>>

(* --------------------------- step 5 ------------------------------------ *)

\* mutant of ResolveUserLevel: the level defaults to the column default
ResolveUserLevel_storedDefault(userId) ==
    IF userId # NoUser /\ userId \in DOMAIN users
    THEN users[userId].level
    ELSE "HSK1"

\* the level performAIAnalysis resolves
ResolveUserLevel(userId) ==
    IF userId # NoUser /\ userId \in DOMAIN users
    THEN users[userId].level
    ELSE "Beginner"

\* GeminiService.parseAnalysisResult on a response that holds a JSON object
ParsedResult(parsed) ==
    [overallScore |-> ClampScore(parsed), toneAccuracy |-> ClampScore(parsed),
     pronunciationErrors |-> <<>>, suggestions |-> <<>>,
     detailedFeedback |-> "feedback"]

\* GeminiService.parseAnalysisResult on a response without a JSON object
FallbackResult ==
    [overallScore |-> 7500, toneAccuracy |-> 7000,
     pronunciationErrors |-> <<"unparsed">>, suggestions |-> <<"retry">>,
     detailedFeedback |-> "raw"]

\* the results GeminiService.analyzePronunciation can resolve to
AIResults == {ParsedResult(p) : p \in ParsedScores} \cup {FallbackResult}

performAIAnalysis(w) ==
    /\ run[w].pc = "step5"
    /\ \E result \in AIResults :
          run' = [run EXCEPT ![w].pc = "step6",
                             ![w].userLevel = ResolveUserLevel(run[w].userId),
                             ![w].analysisResult = result,
                             ![w].steps = Append(@, <<5, TRUE>>)]
    /\ UNCHANGED <<attempts, users, pinned, pinataCalls, gemini, query, app>>

\* the user lookup rejects; performAIAnalysis wraps the error
performAIAnalysisLookupFails(w) ==
    /\ run[w].pc = "step5"
    /\ run[w].userId # NoUser
    /\ \E m \in DbMessages :
          Throw(w, 5, MkError("performAIAnalysis", "AI analysis failed: " \o m))
    /\ UNCHANGED <<attempts, users, pinned, pinataCalls, gemini, query, app>>

\* the Gemini call rejects; GeminiService wraps the error and
\* performAIAnalysis wraps it again
performAIAnalysisFails(w) ==
    /\ run[w].pc = "step5"
    /\ \E m \in NetMessages :
          Throw(w, 5, MkError("performAIAnalysis",
                  "AI analysis failed: " \o "AI analysis failed: " \o m))
    /\ UNCHANGED <<attempts, users, pinned, pinataCalls, gemini, query, app>>

(* --------------------------- step 6 ------------------------------------ *)

\* the row after finalizeAnalysis's update
finalized(row, analysisResult) ==
    [row EXCEPT !.analysisResult = analysisResult,
                !.overallScore = Decimal31(analysisResult.overallScore),
                !.processingStatus = "completed"]

finalizeAnalysis(w) ==
    /\ run[w].pc = "step6"
    /\ ~Decimal31Overflows(run[w].analysisResult.overallScore)
    /\ UpdateRow(w, finalized(Row(w), run[w].analysisResult))
    /\ run' = [run EXCEPT ![w].pc = "step6read"]
    /\ UNCHANGED <<users, pinned, pinataCalls, gemini, query, app>>

\* the update rejects: always when the score does not fit the column,
\* possibly otherwise
finalizeAnalysisFails(w) ==
    /\ run[w].pc = "step6"
    /\ \E m \in DbMessages \cup {"numeric field overflow"} :
          /\ m = "numeric field overflow" <=>
                 Decimal31Overflows(run[w].analysisResult.overallScore)
          /\ Throw(w, 6, MkError("finalizeAnalysis", m))
    /\ UNCHANGED <<attempts, users, pinned, pinataCalls, gemini, query, app>>

\* mapToResponse
mapToResponse(attempt) ==
    [audioFileUrl |-> attempt.audioFileUrl,
     analysisResult |-> attempt.analysisResult,
     overallScore |-> attempt.overallScore,
     processingStatus |-> attempt.processingStatus]

\* the run returns mapToResponse(finalAttempt) to its caller
Return(w, finalAttempt, step) ==
    run' = [run EXCEPT ![w] =
               [Ended(@, "returned") EXCEPT
                   !.response = <<mapToResponse(finalAttempt)>>,
                   !.steps = Append(@, <<step, TRUE>>)]]

\* finalizeAnalysis re-reads the row; without a userId step 7 is skipped and
\* the run returns
finalizeAnalysisRead(w) ==
    /\ run[w].pc = "step6read"
    /\ IF run[w].userId # NoUser
       THEN run' = [run EXCEPT ![w].pc = "step7",
                               ![w].finalAttempt = <<Row(w)>>,
                               ![w].steps = Append(@, <<6, TRUE>>)]
       ELSE Return(w, Row(w), 6)
    /\ UNCHANGED <<attempts, users, pinned, pinataCalls, gemini, query, app>>

finalizeAnalysisReadFails(w) ==
    /\ run[w].pc = "step6read"
    /\ \E m \in DbMessages : Throw(w, 6, MkError("finalizeAnalysis", m))
    /\ UNCHANGED <<attempts, users, pinned, pinataCalls, gemini, query, app>>

(* --------------------------- step 7 ------------------------------------ *)

\* mutant of updateUserStatisticsRead: a user that has no row is created
updateUserStatisticsRead_creates(w) ==
    /\ run[w].pc = "step7"
    /\ IF run[w].userId \in DOMAIN users
       THEN /\ run' = [run EXCEPT ![w].pc = "step7write",
                                  ![w].user = <<users[run[w].userId]>>]
            /\ users' = users
       ELSE /\ Return(w, run[w].finalAttempt[1], 7)
            /\ users' = [u \in DOMAIN users \cup {run[w].userId} |->
                            IF u \in DOMAIN users THEN users[u]
                            ELSE InitialUsers["u1"]]
    /\ UNCHANGED <<attempts, pinned, pinataCalls, gemini, query, app>>

\* updateUserStatistics reads the user row; an absent user ends the step
updateUserStatisticsRead(w) ==
    /\ run[w].pc = "step7"
    /\ IF run[w].userId \in DOMAIN users
       THEN run' = [run EXCEPT ![w].pc = "step7write",
                               ![w].user = <<users[run[w].userId]>>]
       ELSE Return(w, run[w].finalAttempt[1], 7)
    /\ UNCHANGED <<attempts, users, pinned, pinataCalls, gemini, query, app>>

updateUserStatisticsReadFails(w) ==
    /\ run[w].pc = "step7"
    /\ \E m \in DbMessages : Throw(w, 7, MkError("updateUserStatistics", m))
    /\ UNCHANGED <<attempts, users, pinned, pinataCalls, gemini, query, app>>

\* the user row updateUserStatistics writes, from the row it read
newStatistics(user, newScore) ==
    [user EXCEPT
        !.totalAttempts = user.totalAttempts + 1,
        !.averageScore =
            Decimal31(NewAverageScore(
                IF user.averageScore = NullScore THEN 0 ELSE user.averageScore,
                user.totalAttempts, newScore))]

\* mutant of updateUserStatistics: the statistics are computed from the row
\* as it is at the time of the write (an isolated read-modify-write)
updateUserStatistics_isolated(w) ==
    /\ run[w].pc = "step7write"
    /\ LET u == run[w].userId
           new == newStatistics(users[u], run[w].analysisResult.overallScore)
       IN  /\ ~Decimal31Overflows(new.averageScore)
           /\ users' = [users EXCEPT ![u].totalAttempts = new.totalAttempts,
                                     ![u].averageScore = new.averageScore]
    /\ Return(w, run[w].finalAttempt[1], 7)
    /\ UNCHANGED <<attempts, pinned, pinataCalls, gemini, query, app>>

\* userRepository.update(userId, {totalAttempts, averageScore}): only these
\* two columns are written
updateUserStatistics(w) ==
    /\ run[w].pc = "step7write"
    /\ LET u == run[w].userId
           new == newStatistics(run[w].user[1], run[w].analysisResult.overallScore)
       IN  /\ ~Decimal31Overflows(new.averageScore)
           /\ users' = [users EXCEPT ![u].totalAttempts = new.totalAttempts,
                                     ![u].averageScore = new.averageScore]
    /\ Return(w, run[w].finalAttempt[1], 7)
    /\ UNCHANGED <<attempts, pinned, pinataCalls, gemini, query, app>>

\* mutant of updateUserStatisticsFails: a failed statistics write is logged
\* and the run returns its response
updateUserStatisticsFails_swallowed(w) ==
    /\ run[w].pc = "step7write"
    /\ run' = [run EXCEPT ![w] =
                  [Ended(@, "returned") EXCEPT
                      !.response = <<mapToResponse(run[w].finalAttempt[1])>>,
                      !.steps = Append(@, <<7, FALSE>>)]]
    /\ UNCHANGED <<attempts, users, pinned, pinataCalls, gemini, query, app>>

updateUserStatisticsFails(w) ==
    /\ run[w].pc = "step7write"
    /\ \E m \in DbMessages : Throw(w, 7, MkError("updateUserStatistics", m))
    /\ UNCHANGED <<attempts, users, pinned, pinataCalls, gemini, query, app>>

(* ---------------------- outer failure handler -------------------------- *)

\* mutant of catchError: the handler raises a new error that wraps the
\* original
catchError_wraps(w) ==
    /\ run[w].pc = "catch"
    /\ UpdateRow(w, updateProcessingStatus(Row(w), "failed",
                                           ErrorMessageOf(run[w].error)))
    /\ run' = [run EXCEPT ![w] =
                  [Ended(@, "raised") EXCEPT
                      !.handled = "ok",
                      !.raised = MkError("catch", "Analysis failed: "
                                            \o ErrorMessageOf(run[w].error))]]
    /\ UNCHANGED <<users, pinned, pinataCalls, gemini, query, app>>

\* mutant of catchError: the handler compensates by unpinning the uploaded
\* object and clearing its location
catchError_unpins(w) ==
    /\ run[w].pc = "catch"
    /\ UpdateRow(w, [updateProcessingStatus(Row(w), "failed",
                                            ErrorMessageOf(run[w].error))
                        EXCEPT !.audioFileUrl = "", !.ipfsHash = ""])
    /\ run' = [run EXCEPT ![w] =
                  [Ended(@, "raised") EXCEPT
                      !.handled = "ok", !.raised = run[w].error]]
    /\ pinned' = pinned \ {Row(w).ipfsHash}
    /\ pinataCalls' = pinataCalls \cup {"unpinFile"}
    /\ UNCHANGED <<users, gemini, query, app>>

\* catch (error): mark the row failed with the error's message, rethrow
catchError(w) ==
    /\ run[w].pc = "catch"
    /\ UpdateRow(w, updateProcessingStatus(Row(w), "failed",
                                           ErrorMessageOf(run[w].error)))
    /\ run' = [run EXCEPT ![w] =
                  [Ended(@, "raised") EXCEPT
                      !.handled = "ok", !.raised = run[w].error]]
    /\ UNCHANGED <<users, pinned, pinataCalls, gemini, query, app>>

\* the handler's own status write rejects: that error leaves the handler
\* instead of the original one
catchErrorFails(w) ==
    /\ run[w].pc = "catch"
    /\ run' = [run EXCEPT ![w] =
                  [Ended(@, "raised") EXCEPT
                      !.handled = "failed",
                      !.raised = MkError("catch", "db")]]
    /\ UNCHANGED <<attempts, users, pinned, pinataCalls, gemini, query, app>>

(* --------------------------- specification ----------------------------- *)

Next ==
    \E w \in Runs :
        \/ createInitialAttempt(w)
        \/ createInitialAttemptFails(w)
        \/ markProcessing(w)
        \/ markProcessingFails(w)
        \/ uploadAudioToIPFS(w)
        \/ uploadAudioToIPFSFails(w)
        \/ updateAttemptWithIPFS(w)
        \/ updateAttemptWithIPFSFails(w)
        \/ performAIAnalysis(w)
        \/ performAIAnalysisLookupFails(w)
        \/ performAIAnalysisFails(w)
        \/ finalizeAnalysis(w)
        \/ finalizeAnalysisFails(w)
        \/ finalizeAnalysisRead(w)
        \/ finalizeAnalysisReadFails(w)
        \/ updateUserStatisticsRead(w)
        \/ updateUserStatisticsReadFails(w)
        \/ updateUserStatistics(w)
        \/ updateUserStatisticsFails(w)
        \/ catchError(w)
        \/ catchErrorFails(w)

Spec == Init /\ [][Next]_vars

TypeOK ==
    /\ \A w \in Runs : Len(attempts[w]) <= 1
    /\ \A u \in DOMAIN users : users[u].totalAttempts >= 0

(* ------------------------- shared vocabulary --------------------------- *)

\* step k of run w was executed and succeeded / failed
StepOk(w, k) == \E i \in 1 .. Len(run[w].steps) : run[w].steps[i] = <<k, TRUE>>
StepFailed(w, k) == \E i \in 1 .. Len(run[w].steps) : run[w].steps[i] = <<k, FALSE>>

\* the steps 1..n, all succeeded
AllOk(n) == [i \in 1 .. n |-> <<i, TRUE>>]

\* the location step 4 writes for run w
UploadedHash(w) == IpfsHashOf(run[w].audio)
UploadedUrl(w) == getPublicUrl(UploadedHash(w))

(* ------------------------------- C1 ------------------------------------ *)

\* C1 (as claimed): when every call of a submission succeeds the response
\* is completed and its overallScore equals its analysisResult.overallScore,
\* and every completed row has overallScore = analysisResult.overallScore,
\* for every score the AI adapter can return.
C1_ScoresAgreeOnceCompleted ==
    \A w \in Runs :
        /\ run[w].pc = "returned" =>
              /\ run[w].response[1].processingStatus = "completed"
              /\ run[w].response[1].overallScore =
                     run[w].response[1].analysisResult.overallScore
        /\ (HasRow(w) /\ Row(w).processingStatus = "completed") =>
              Row(w).overallScore = Row(w).analysisResult.overallScore

(* ------------------------------- C2 ------------------------------------ *)

C4_TerminalStatusNeverChanges ==
    [][\A w \in Runs :
          (HasRow(w) /\ Row(w).processingStatus \in {"completed", "failed"}) =>
              attempts'[w][1].processingStatus = Row(w).processingStatus]_vars

(* ------------------------------- C5 ------------------------------------ *)

C6_StepsInOrder ==
    \A w \in Runs :
        LET s == run[w].steps
            pc == run[w].pc
        IN  \* the executed steps are 1, 2, 3, ... and only the last can fail
            /\ \A i \in 1 .. Len(s) :
                  s[i][1] = i /\ (i < Len(s) => s[i][2])
            \* each step is about to start only after all earlier ones succeeded
            /\ pc = "idle" => s = <<>>
            /\ pc = "step2" => s = AllOk(1) /\ Row(w) = InitialAttempt(run[w].userId)
            /\ pc = "step3" => s = AllOk(2)
            /\ pc = "step4" => s = AllOk(3)
            /\ pc = "step5" => s = AllOk(4)
            /\ pc \in {"step6", "step6read"} => s = AllOk(5)
            /\ pc \in {"step7", "step7write"} => s = AllOk(6)
            /\ pc = "returned" =>
                  s = AllOk(7) \/ (s = AllOk(6) /\ run[w].userId = NoUser)
            \* a failed step ends the sequence
            /\ (s # <<>> /\ ~s[Len(s)][2]) <=> pc \in {"catch", "raised"}
            \* the effects of a step are there only once the step has run
            /\ HasRow(w) <=> StepOk(w, 1)
            /\ (HasRow(w) /\ Row(w).processingStatus \in {"processing", "completed"})
                  => StepOk(w, 2)
            /\ (HasRow(w) /\ Row(w).processingStatus = "completed") => StepOk(w, 5)
            /\ (HasRow(w) /\ Row(w).processingStatus = "failed")
                  => ~run[w].steps[Len(run[w].steps)][2]
            /\ (HasRow(w) /\ Row(w).audioFileUrl # "") => StepOk(w, 3) /\ StepOk(w, 4)
            /\ (HasRow(w) /\ Row(w).analysisResult # ZeroAnalysis) => StepOk(w, 5)
            /\ StepOk(w, 7) => run[w].userId # NoUser /\ StepOk(w, 6)

C6_Witness ==
    \E w1, w2 \in Runs :
        /\ run[w1].pc = "returned" /\ run[w1].steps = AllOk(7)
        /\ run[w2].pc = "raised" /\ run[w2].steps = AllOk(2) \o << <<3, FALSE>> >>

(* ------------------------------- C7 ------------------------------------ *)

\* C7 (as claimed): whenever a row's processingStatus is processing, its
\* audioFileUrl and ipfsHash are both non-empty.
C7_ProcessingHasLocation ==
    \A w \in Runs :
        (HasRow(w) /\ Row(w).processingStatus = "processing") =>
            Row(w).audioFileUrl # "" /\ Row(w).ipfsHash # ""

\* C7 (amended): whenever a row's processingStatus is processing and step 4
\* has succeeded, or its processingStatus is completed, its audioFileUrl and
\* ipfsHash are both non-empty; a row in processing whose step 4 has not
\* succeeded (status is set before the upload) has both empty.
C7_LocationSetFromStep4 ==
    \A w \in Runs :
        HasRow(w) =>
            /\ (Row(w).processingStatus = "processing" /\ StepOk(w, 4)) =>
                  Row(w).audioFileUrl # "" /\ Row(w).ipfsHash # ""
            /\ Row(w).processingStatus = "completed" =>
                  Row(w).audioFileUrl # "" /\ Row(w).ipfsHash # ""
            /\ (Row(w).processingStatus = "processing" /\ ~StepOk(w, 4)) =>
                  Row(w).audioFileUrl = "" /\ Row(w).ipfsHash = ""

C7_Witness ==
    \E w \in Runs :
        /\ HasRow(w) /\ Row(w).processingStatus = "processing"
        /\ run[w].pc = "step5" /\ StepOk(w, 4)
        /\ Row(w).ipfsHash = UploadedHash(w)

(* ------------------------------- C8 ------------------------------------ *)

\* C8: once a row's audioFileUrl and ipfsHash hold the uploaded object's URL
\* and hash, no step of any run (the failure handler and other runs
\* included) changes or clears them, the object stays pinned, and
\* unpinFile is never invoked.
C8_UploadNeverUndone ==
    /\ []("unpinFile" \notin pinataCalls)
    /\ [][\A w \in Runs :
             (/\ HasRow(w)
              /\ Row(w).audioFileUrl = UploadedUrl(w)
              /\ Row(w).ipfsHash = UploadedHash(w)) =>
                 /\ attempts'[w] # <<>>
                 /\ attempts'[w][1].audioFileUrl = Row(w).audioFileUrl
                 /\ attempts'[w][1].ipfsHash = Row(w).ipfsHash
                 /\ Row(w).ipfsHash \in pinned']_vars

C8_Witness ==
    \E w \in Runs :
        /\ run[w].pc = "raised" /\ run[w].handled = "ok" /\ StepOk(w, 4)
        /\ Row(w).processingStatus = "failed"
        /\ Row(w).ipfsHash = IpfsHashOf(run[w].audio)
        /\ Row(w).ipfsHash \in pinned

(* ------------------------------- C9 ------------------------------------ *)

\* the runs submitted for user u that are between call and return
InFlight(u) ==
    {w \in Runs : run[w].userId = u /\ run[w].pc \notin {"idle", "returned", "raised"}}

\* the attempt rows of user u that are completed
CompletedAttempts(u) ==
    {w \in Runs : HasRow(w) /\ Row(w).userId = u
                            /\ Row(w).processingStatus = "completed"}

\* C9 (as claimed): whenever none of a user's submissions is in flight,
\* the user's totalAttempts equals its initial value plus the number of the
\* user's completed attempt rows.
C9_TotalAttemptsCountsCompleted ==
    \A u \in DOMAIN users :
        InFlight(u) = {} =>
            users[u].totalAttempts =
                InitialUsers[u].totalAttempts + Cardinality(CompletedAttempts(u))

(* ------------------------------- C10 ----------------------------------- *)

\* C10 (as claimed): every write to a user's totalAttempts stores a value
\* strictly greater than the value the row held just before the write.
C10_TotalAttemptsStrictlyIncreases ==
    [][\A w \in Runs :
          (run[w].pc = "step7write" /\ run'[w].pc = "returned") =>
              users'[run[w].userId].totalAttempts
                  > users[run[w].userId].totalAttempts]_vars

(* ------------------------------- C11 ----------------------------------- *)

\* r is x / d rounded to one decimal place, all in hundredths: r is a
\* multiple of 10 nearest to x / d (the quotient is a binary floating-point
\* number in the program, so a quotient exactly halfway is allowed either
\* neighbour)
IsRoundedQuotient(r, x, d) ==
    /\ r % 10 = 0
    /\ (r - 5) * d <= x
    /\ x <= (r + 5) * d

\* C11: the statistics step is not isolated: every statistics write stores
\* the values computed from the (totalAttempts, averageScore) its own run
\* read earlier, whatever the row holds at the time of the write; so two
\* runs for one user that read the same values both end completed with
\* totalAttempts increased by 1 only and averageScore reflecting one score
\* only (the state C11_Witness describes).
C11_StatisticsWriteNotIsolated ==
    [][\A w \in Runs :
          (run[w].pc = "step7write" /\ run'[w].pc = "returned") =>
              LET u == run[w].userId
                  read == run[w].user[1]
                  avg == IF read.averageScore = NullScore THEN 0
                         ELSE read.averageScore
              IN  /\ users'[u].totalAttempts = read.totalAttempts + 1
                  /\ IsRoundedQuotient(users'[u].averageScore,
                         avg * read.totalAttempts
                             + run[w].analysisResult.overallScore,
                         read.totalAttempts + 1)]_vars

C11_Witness ==
    \E w1, w2 \in Runs :
        /\ w1 # w2
        /\ run[w1].userId = "u1" /\ run[w2].userId = "u1"
        /\ run[w1].pc = "returned" /\ run[w2].pc = "returned"
        /\ Row(w1).processingStatus = "completed"
        /\ Row(w2).processingStatus = "completed"
        /\ Row(w1).overallScore # Row(w2).overallScore
        /\ users["u1"].totalAttempts = InitialUsers["u1"].totalAttempts + 1
        /\ users["u1"].averageScore = Row(w2).overallScore

(* --------------------- statistics after a history ---------------------- *)

\* the longest history of earlier completed submissions of one user
MaxHistory == 3

\* the scores GeminiService returns in the histories: 50.0, 75.0, 75.1,
\* 80.0 and 90.0
StatScores == {5000, 7500, 7510, 8000, 9000}

\* the sequences of scores of a user's earlier submissions, oldest first
Histories == UNION {[1 .. k -> StatScores] : k \in 0 .. MaxHistory}

\* the user row after the submissions of history h ran step 7 one after
\* the other
RECURSIVE StatisticsAfter(_, _)
StatisticsAfter(user, h) ==
    IF h = <<>> THEN user
    ELSE newStatistics(StatisticsAfter(user, SubSeq(h, 1, Len(h) - 1)),
                       h[Len(h)])

\* what step 3 returns for an audio
IpfsResultOf(audio) ==
    [ipfsHash |-> IpfsHashOf(audio), audioUrl |-> getPublicUrl(IpfsHashOf(audio))]

\* the attempt row after steps 1, 2, 4 and 6 of a submission
CompletedRow(userId, audio, analysisResult) ==
    finalized(withIPFS(updateProcessingStatus(InitialAttempt(userId),
                                              "processing", ""),
                       IpfsResultOf(audio)),
              analysisResult)

\* the row ids of the submissions of history h
HistoryIds(h) == NumRuns + 1 .. NumRuns + Len(h)

\* user u1 has a history of completed submissions that ran one after the
\* other, and run 1, a further submission of u1, has finished step 6
StatsInit ==
    \E h \in Histories, s \in StatScores :
        /\ attempts =
              [i \in Runs \cup HistoryIds(h) |->
                  IF i = 1
                  THEN <<CompletedRow("u1", "a1", ParsedResult(s))>>
                  ELSE IF i \in Runs THEN <<>>
                  ELSE <<CompletedRow("u1", "a1", ParsedResult(h[i - NumRuns]))>>]
        /\ users = [InitialUsers EXCEPT !["u1"] = StatisticsAfter(@, h)]
        /\ run = [w \in Runs |->
                     IF w = 1
                     THEN [IdleRun EXCEPT
                              !.pc = "step7", !.userId = "u1",
                              !.ipfsResult = IpfsResultOf("a1"),
                              !.userLevel = ResolveUserLevel("u1"),
                              !.analysisResult = ParsedResult(s),
                              !.finalAttempt =
                                  <<CompletedRow("u1", "a1", ParsedResult(s))>>,
                              !.steps = AllOk(6)]
                     ELSE IdleRun]
        /\ pinned = {IpfsHashOf("a1")}
        /\ pinataCalls = {"uploadAudio", "getPublicUrl"}
        /\ gemini = NoGeminiCall
        /\ query = NoQuery
        /\ app = ReadyApp

\* step 7 and the failure handler
StatsNext ==
    \E w \in Runs :
        \/ updateUserStatisticsRead(w)
        \/ updateUserStatisticsReadFails(w)
        \/ updateUserStatistics(w)
        \/ updateUserStatisticsFails(w)
        \/ catchError(w)
        \/ catchErrorFails(w)

StatsSpec == StatsInit /\ [][StatsNext]_vars

(* ------------------------------- C12 ----------------------------------- *)

\* C12: a statistics write of a run that found the user row holding
\* (n, avg) and whose score is s stores totalAttempts = n + 1 and
\* averageScore = (avg * n + s) / (n + 1) rounded to one decimal place,
\* a null avg counting as 0.
C12_IncrementalMean ==
    [][\A w \in Runs :
          (run[w].pc = "step7write" /\ run'[w].pc = "returned") =>
              LET u == run[w].userId
                  n == users[u].totalAttempts
                  avg == IF users[u].averageScore = NullScore THEN 0
                         ELSE users[u].averageScore
                  s == run[w].analysisResult.overallScore
              IN  /\ users'[u].totalAttempts = n + 1
                  /\ IsRoundedQuotient(users'[u].averageScore,
                                       avg * n + s, n + 1)]_vars

\* the example: (3, 80.0) and a score of 90 give (4, 82.5)
C12_Witness ==
    /\ run[1].pc = "returned"
    /\ run[1].steps = AllOk(7)
    /\ Row(1).overallScore = 9000
    /\ DOMAIN attempts = Runs \cup (NumRuns + 1 .. NumRuns + 3)
    /\ \A i \in NumRuns + 1 .. NumRuns + 3 : attempts[i][1].overallScore = 8000
    /\ users["u1"].totalAttempts = 4
    /\ users["u1"].averageScore = 8250

(* ------------------------------- C13 ----------------------------------- *)

\* the ids of the completed attempt rows of user u
CompletedRows(u) ==
    {i \in DOMAIN attempts : /\ attempts[i] # <<>>
                             /\ attempts[i][1].userId = u
                             /\ attempts[i][1].processingStatus = "completed"}

\* the sum of overallScore over the rows ids
RECURSIVE SumOfScores(_)
SumOfScores(ids) ==
    IF ids = {} THEN 0
    ELSE LET i == CHOOSE j \in ids : TRUE
         IN  attempts[i][1].overallScore + SumOfScores(ids \ {i})

\* C13 (as claimed): once a submission that followed a history of
\* submissions run one after the other has returned, the user's averageScore
\* is the arithmetic mean of overallScore over all the user's completed
\* attempts, rounded to one decimal place, when every score has one decimal.
C13_AverageIsMeanOfCompleted ==
    \A w \in Runs :
        (/\ run[w].pc = "returned"
         /\ run[w].steps = AllOk(7)
         /\ \A i \in CompletedRows(run[w].userId) :
               attempts[i][1].analysisResult.overallScore % 10 = 0)
        => IsRoundedQuotient(users[run[w].userId].averageScore,
                             SumOfScores(CompletedRows(run[w].userId)),
                             Cardinality(CompletedRows(run[w].userId)))

(* ------------------------------- C14 ----------------------------------- *)

\* C14 (as claimed): every score the adapter returns, 100 included, fits
\* the decimal(3,1) columns: no write of a clamped score is rejected with a
\* numeric overflow.
C14_ClampedScoresFitColumns ==
    \A w \in Runs :
        /\ run[w].pc = "step6" =>
              ~Decimal31Overflows(run[w].analysisResult.overallScore)
        /\ ErrorMessageOf(run[w].error) # "numeric field overflow"

(* ------------------------------- C15 ----------------------------------- *)

\* the row of run w holds what steps 4 and 6 wrote
HoldsResults(w) ==
    /\ HasRow(w)
    /\ Row(w).analysisResult \in AIResults
    /\ Row(w).overallScore = Decimal31(Row(w).analysisResult.overallScore)
    /\ Row(w).audioFileUrl = UploadedUrl(w)
    /\ Row(w).ipfsHash = UploadedHash(w)

C16_ErrorMessageOnlyWhenFailed ==
    \A i \in DOMAIN attempts :
        (attempts[i] # <<>> /\ attempts[i][1].errorMessage # <<>>) =>
            attempts[i][1].processingStatus = "failed"

C16_Witness ==
    \E w \in Runs :
        /\ StepFailed(w, 4)
        /\ run[w].pc = "raised"
        /\ Row(w).processingStatus = "failed"
        /\ Row(w).errorMessage = <<"db">>

(* ----------------- GeminiService.parseAnalysisResult ------------------- *)

\* JavaScript values a parsed field can hold; numbers are in hundredths
JSNumber(n) == [type |-> "number", num |-> n, str |-> ""]
JSString(str) == [type |-> "string", num |-> 0, str |-> str]
JSUndefined == [type |-> "undefined", num |-> 0, str |-> ""]
JSNaN == [type |-> "NaN", num |-> 0, str |-> ""]

\* the text of a response as a sequence of symbols, each with a run length:
\* an opening or closing brace, a run of len characters of prose, or one
\* field "key": value of a JSON object
Brace(kind) == [kind |-> kind, value |-> JSUndefined, len |-> 1]
Prose(len) == [kind |-> "prose", value |-> JSUndefined, len |-> len]
Field(key, value) == [kind |-> key, value |-> value, len |-> 1]

\* the longest response, in symbols
MaxLen == 4

\* the lengths of the runs of prose
ProseLens == {1, 499}

\* the values of overallScore in a response: negative, zero, fractional,
\* above 100 and a string that is not a number
FieldValues == {JSNumber(-500), JSNumber(0), JSNumber(8555), JSNumber(12000),
                JSString("abc")}

Symbols ==
    {Brace("{"), Brace("}")}
        \cup {Prose(n) : n \in ProseLens}
        \cup {Field("overallScore", v) : v \in FieldValues}
        \cup {Field("toneAccuracy", JSNumber(9000))}

Texts == UNION {[1 .. k -> Symbols] : k \in 0 .. MaxLen}

\* String.length
RECURSIVE TextLength(_)
TextLength(text) ==
    IF text = <<>> THEN 0 ELSE Head(text).len + TextLength(Tail(text))

\* String.substring(0, n)
RECURSIVE substring(_, _)
substring(text, n) ==
    IF text = <<>> \/ n <= 0 THEN <<>>
    ELSE IF Head(text).len <= n
         THEN <<Head(text)>> \o substring(Tail(text), n - Head(text).len)
         ELSE <<[Head(text) EXCEPT !.len = n]>>

\* analysisText.match(/\{[\s\S]*\}/): from the first opening brace to the
\* last closing brace after it; <<>> when there is none
jsonMatch(text) ==
    LET opens == {i \in 1 .. Len(text) : text[i].kind = "{"}
        first == CHOOSE i \in opens : \A k \in opens : i <= k
        closes == {j \in 1 .. Len(text) : text[j].kind = "}" /\ j > first}
        last == CHOOSE j \in closes : \A k \in closes : j >= k
    IN  IF opens = {} \/ closes = {} THEN <<>>
        ELSE <<SubSeq(text, first, last)>>

\* the nesting depth after the first k symbols of json
RECURSIVE Depth(_, _)
Depth(json, k) ==
    IF k = 0 THEN 0
    ELSE Depth(json, k - 1)
            + (IF json[k].kind = "{" THEN 1
               ELSE IF json[k].kind = "}" THEN -1 ELSE 0)

\* json is one JSON object: it opens with a brace that its last symbol
\* closes, and holds fields and nested objects only
IsObject(json) ==
    /\ Len(json) >= 2
    /\ json[1].kind = "{"
    /\ Depth(json, Len(json)) = 0
    /\ \A k \in 1 .. Len(json) - 1 : Depth(json, k) >= 1
    /\ \A k \in 1 .. Len(json) : json[k].kind # "prose"

\* parsed[key] of the object JSON.parse(json) returns: the last field of
\* that name at the top level
FieldOf(json, key) ==
    LET at == {k \in 1 .. Len(json) : json[k].kind = key /\ Depth(json, k) = 1}
    IN  IF at = {} THEN JSUndefined
        ELSE json[CHOOSE k \in at : \A m \in at : k >= m].value

\* v || 0: undefined, 0, NaN and the empty string are falsy
OrZero(v) ==
    IF \/ v.type \in {"undefined", "NaN"}
       \/ (v.type = "number" /\ v.num = 0)
       \/ (v.type = "string" /\ v.str = "")
    THEN JSNumber(0)
    ELSE v

\* the number Math.min and Math.max convert an argument to; the strings of
\* FieldValues are not numerals
ToNumber(v) == IF v.type = "number" THEN v ELSE JSNaN

\* Math.max(0, Math.min(100, v || 0)): NaN when the argument is not a number
ScoreOf(v) ==
    LET n == ToNumber(OrZero(v))
    IN  IF n.type = "NaN" THEN JSNaN ELSE JSNumber(ClampScore(n.num))

\* the result built from a parsed object
ResultOf(json) ==
    [overallScore |-> ScoreOf(FieldOf(json, "overallScore")),
     toneAccuracy |-> ScoreOf(FieldOf(json, "toneAccuracy")),
     pronunciationErrors |-> <<>>,
     suggestions |-> <<>>,
     detailedFeedback |-> "Không có phản hồi chi tiết."]

\* the longest detailedFeedback of the fallback, in characters
FeedbackLimit == 500

\* mutant of FallbackOf: the whole text is the feedback
FallbackOf_uncut(analysisText) ==
    [overallScore |-> JSNumber(7500),
     toneAccuracy |-> JSNumber(7000),
     pronunciationErrors |-> <<"Không thể phân tích chi tiết">>,
     suggestions |-> <<"Hãy thử lại với âm thanh rõ ràng hơn">>,
     detailedFeedback |-> analysisText]

\* the fallback result
FallbackOf(analysisText) ==
    [overallScore |-> JSNumber(7500),
     toneAccuracy |-> JSNumber(7000),
     pronunciationErrors |-> <<"Không thể phân tích chi tiết">>,
     suggestions |-> <<"Hãy thử lại với âm thanh rõ ràng hơn">>,
     detailedFeedback |-> substring(analysisText, FeedbackLimit)]

\* parseAnalysisResult: JSON.parse throws on a match that is not one JSON
\* object, the catch logs it and the fallback is returned
parseAnalysisResult(analysisText) ==
    LET jsonMatched == jsonMatch(analysisText)
    IN  IF jsonMatched # <<>> /\ IsObject(jsonMatched[1])
        THEN ResultOf(jsonMatched[1])
        ELSE FallbackOf(analysisText)

\* GeminiService.analyzePronunciation has received a response with text
ParseInit ==
    /\ attempts = [w \in Runs |-> <<>>]
    /\ users = InitialUsers
    /\ run = [w \in Runs |-> IdleRun]
    /\ pinned = {}
    /\ pinataCalls = {}
    /\ query = NoQuery
    /\ app = ReadyApp
    /\ \E analysisText \in Texts :
          gemini = [pc |-> "called", analysisText |-> analysisText,
                    result |-> <<>>]

\* return this.parseAnalysisResult(analysisText)
parseAnalysisResultReturns ==
    /\ gemini.pc = "called"
    /\ gemini' = [gemini EXCEPT
                     !.pc = "returned",
                     !.result = <<parseAnalysisResult(gemini.analysisText)>>]
    /\ UNCHANGED <<attempts, users, run, pinned, pinataCalls, query, app>>

ParseNext == parseAnalysisResultReturns

ParseSpec == ParseInit /\ [][ParseNext]_vars

(* ------------------------------- C17 ----------------------------------- *)

\* the i-th character of text
RECURSIVE CharAt(_, _)
CharAt(text, i) ==
    IF i <= Head(text).len THEN <<Head(text).kind, Head(text).value>>
    ELSE CharAt(Tail(text), i - Head(text).len)

\* a is the first n characters of b, or all of b when b is shorter
IsFirstChars(a, b, n) ==
    /\ TextLength(a) = Min(n, TextLength(b))
    /\ \A i \in 1 .. TextLength(a) : CharAt(a, i) = CharAt(b, i)

\* C17: for a text with no JSON object in it, or whose candidate does not
\* parse, parseAnalysisResult returns exactly the fallback: overallScore 75,
\* toneAccuracy 70, the fixed error and suggestion, and the first 500
\* characters of the text as detailedFeedback; it returns in every case.
C17_FallbackIsFixed ==
    /\ gemini.pc \in {"none", "called", "returned"}
    /\ gemini.pc = "returned" =>
          /\ Len(gemini.result) = 1
          /\ (jsonMatch(gemini.analysisText) = <<>>
                 \/ ~IsObject(jsonMatch(gemini.analysisText)[1])) =>
                LET result == gemini.result[1]
                IN  /\ result.overallScore = JSNumber(7500)
                    /\ result.toneAccuracy = JSNumber(7000)
                    /\ result.pronunciationErrors =
                           <<"Không thể phân tích chi tiết">>
                    /\ result.suggestions =
                           <<"Hãy thử lại với âm thanh rõ ràng hơn">>
                    /\ IsFirstChars(result.detailedFeedback,
                                    gemini.analysisText, 500)

\* a text of 502 characters whose candidate does not parse: the feedback
\* is cut
C17_Witness ==
    /\ gemini.pc = "returned"
    /\ gemini.analysisText = <<Prose(499), Brace("{"), Prose(1), Brace("}")>>
    /\ gemini.result[1].overallScore = JSNumber(7500)
    /\ gemini.result[1].detailedFeedback = <<Prose(499), Brace("{")>>

(* ------------------------------- C18 ----------------------------------- *)

\* the JSON of the response was parsed
Parsed ==
    /\ gemini.pc = "returned"
    /\ jsonMatch(gemini.analysisText) # <<>>
    /\ IsObject(jsonMatch(gemini.analysisText)[1])

\* v is a number within [0, 100]
InRange(v) == v.type = "number" /\ 0 <= v.num /\ v.num <= 10000

\* C18 (as claimed): whenever JSON was parsed from the response, the
\* overallScore and toneAccuracy returned are within [0, 100], whatever the
\* fields hold.
C18_ScoresWithinRange ==
    Parsed => /\ InRange(gemini.result[1].overallScore)
              /\ InRange(gemini.result[1].toneAccuracy)

(* ------------------------------- C19 ----------------------------------- *)

\* the JSON objects in text, as pairs of first and last position
ObjectsIn(text) ==
    {p \in (1 .. Len(text)) \X (1 .. Len(text)) :
        p[1] < p[2] /\ IsObject(SubSeq(text, p[1], p[2]))}

\* the object of text that starts first
FirstObject(text) ==
    LET p == CHOOSE q \in ObjectsIn(text) :
                 \A o \in ObjectsIn(text) : q[1] <= o[1]
    IN  SubSeq(text, p[1], p[2])

\* C19 (as claimed): when the text holds at least one well-formed JSON
\* object, the result is built from the first of them, whatever surrounds
\* it.
C19_ResultFromFirstObject ==
    (gemini.pc = "returned" /\ ObjectsIn(gemini.analysisText) # {}) =>
        gemini.result[1] = ResultOf(FirstObject(gemini.analysisText))

(* ------------------- getUserPronunciationAttempts ---------------------- *)

\* the largest table, page number and page size of the queries
MaxRows == 22
MaxPage == 3
MaxLimit == 10

\* the attempts of the table that belong to user u2 (every third), and
\* those that failed at step 5 (every fifth)
RowsOfOther == {3 * k : k \in 1 .. MaxRows}
RowsFailed == {5 * k : k \in 1 .. MaxRows}

\* the overallScore of the i-th attempt of the table: 80, 70, 60 for the
\* first three attempts of u1, lower with every later attempt, 5 at least
TableScore(i) == Max(500, 9000 - 1000 * (i - i \div 3))

\* the attempt row created as the i-th of the table; createdAt is set by
\* the database when the row is inserted
TableRow(i) ==
    LET userId == IF i \in RowsOfOther THEN "u2" ELSE "u1"
        audio == "a" \o ToString(i)
        row == CompletedRow(userId, audio, ParsedResult(TableScore(i)))
        stored == IF i \in RowsFailed
                  THEN updateProcessingStatus(
                           withIPFS(updateProcessingStatus(
                                        InitialAttempt(userId), "processing", ""),
                                    IpfsResultOf(audio)),
                           "failed", "AI analysis failed: net")
                  ELSE row
    IN  stored @@ [createdAt |-> i]

\* the completed attempts of user u among the first n rows
CompletedAmong(u, n) ==
    {i \in 1 .. n : TableRow(i).userId = u
                    /\ TableRow(i).processingStatus = "completed"}

\* the scores of the completed attempts of user u among the first n rows,
\* in the order of their creation
ScoresAmong(u, n) ==
    LET done == CompletedAmong(u, n)
    IN  [k \in 1 .. Cardinality(done) |->
            TableScore(CHOOSE i \in done : Cardinality({j \in done : j < i}) = k - 1)]

\* the submissions of a table of n attempts have all ended
QueryInit ==
    \E n \in 0 .. MaxRows :
        /\ attempts = [i \in Runs \cup (1 .. n) |->
                          IF i <= n THEN <<TableRow(i)>> ELSE <<>>]
        /\ users = [u \in DOMAIN InitialUsers |->
                       StatisticsAfter(InitialUsers[u], ScoresAmong(u, n))]
        /\ run = [w \in Runs |-> IdleRun]
        /\ pinned = {TableRow(i).ipfsHash : i \in 1 .. n}
        /\ pinataCalls = IF n = 0 THEN {} ELSE {"uploadAudio", "getPublicUrl"}
        /\ gemini = NoGeminiCall
        /\ query = NoQuery
        /\ app = ReadyApp

\* where: { userId }
RowsOf(userId) ==
    {i \in DOMAIN attempts : attempts[i] # <<>> /\ attempts[i][1].userId = userId}

\* order: { createdAt: 'DESC' }: the rows ids, newest first
RECURSIVE NewestFirst(_)
NewestFirst(ids) ==
    IF ids = {} THEN <<>>
    ELSE LET newest == CHOOSE i \in ids :
                 \A j \in ids : attempts[i][1].createdAt >= attempts[j][1].createdAt
         IN  <<attempts[newest][1]>> \o NewestFirst(ids \ {newest})

\* mutant of Skip: pages are counted from 0
Skip_fromZero(page, limit) == page * limit

\* skip: (page - 1) * limit
Skip(page, limit) == (page - 1) * limit

\* findAndCount({where, order, skip, take}): the page and the count of all
\* the rows that match
findAndCount(userId, skip, take) ==
    LET ordered == NewestFirst(RowsOf(userId))
    IN  <<SubSeq(ordered, skip + 1, Min(skip + take, Len(ordered))),
          Len(ordered)>>

\* Math.ceil(total / limit)
Ceil(total, limit) == (total + limit - 1) \div limit

getUserPronunciationAttempts ==
    /\ query.pc = "none"
    /\ \E userId \in DOMAIN users, page \in 1 .. MaxPage, limit \in 1 .. MaxLimit :
          LET found == findAndCount(userId, Skip(page, limit), limit)
          IN  query' = [NoQuery EXCEPT
                            !.op = "getUserPronunciationAttempts",
                            !.pc = "returned",
                            !.userId = userId,
                            !.page = page,
                            !.limit = limit,
                            !.result = <<[attempts |-> [k \in 1 .. Len(found[1]) |->
                                                           mapToResponse(found[1][k])],
                                          total |-> found[2],
                                          totalPages |-> Ceil(found[2], limit)]>>]
    /\ UNCHANGED <<attempts, users, run, pinned, pinataCalls, gemini, app>>

\* findAndCount rejects: the error goes to the caller
getUserPronunciationAttemptsFails ==
    /\ query.pc = "none"
    /\ \E userId \in DOMAIN users, page \in 1 .. MaxPage, limit \in 1 .. MaxLimit :
          query' = [NoQuery EXCEPT
                        !.op = "getUserPronunciationAttempts",
                        !.pc = "raised",
                        !.userId = userId,
                        !.page = page,
                        !.limit = limit,
                        !.error = MkError("findAndCount", "db")]
    /\ UNCHANGED <<attempts, users, run, pinned, pinataCalls, gemini, app>>

(* ------------------------ getUserStatistics ---------------------------- *)

\* a JavaScript string made of numerals written one after the other; a
\* numeral is a value in hundredths and whether it is written with a
\* decimal point
JSText(numerals) == [type |-> "text", num |-> 0, str |-> "", numerals |-> numerals]

\* what the driver hands over for a decimal column: the text of the number
\* as the database prints it, "80.0" for 80, never a JavaScript number (the
\* entities declare no transformer and no type parser is registered)
DecimalText(x) == JSText(<<[value |-> x, point |-> TRUE]>>)

\* String(v) for a number: "0" for 0, no decimal point in a whole number
NumeralsOf(v) ==
    IF v.type = "text" THEN v.numerals
    ELSE <<[value |-> v.num, point |-> v.num % 100 # 0]>>

\* a + b: the sum of two numbers, and the concatenation of the two texts
\* when either operand is a string
JSAdd(a, b) ==
    IF a.type = "number" /\ b.type = "number"
    THEN JSNumber(a.num + b.num)
    ELSE JSText(NumeralsOf(a) \o NumeralsOf(b))

\* Number(v): a text is a number when it holds one decimal point at most;
\* the only whole numeral the texts here begin with is the "0" the reduce
\* starts from, and "080.0" is 80
JSToNumber(v) ==
    IF v.type # "text" THEN v
    ELSE LET t == v.numerals
             points == {k \in DOMAIN t : t[k].point}
         IN  IF \/ Cardinality(points) > 1
                \/ \E k \in DOMAIN t : k < Len(t) /\ t[k].value # 0
             THEN JSNaN
             ELSE JSNumber(t[Len(t)].value)

\* a / n and a - b convert their operands to numbers; the one quotient of a
\* number formed here has n = 1
JSDivide(a, n) ==
    IF JSToNumber(a).type = "NaN" THEN JSNaN
    ELSE JSNumber(JSToNumber(a).num \div n)

JSSubtract(a, b) ==
    IF JSToNumber(a).type = "NaN" \/ JSToNumber(b).type = "NaN" THEN JSNaN
    ELSE JSNumber(JSToNumber(a).num - JSToNumber(b).num)

\* Math.max(...values): the arguments are converted to numbers
MathMax(values) ==
    IF \E k \in DOMAIN values : JSToNumber(values[k]).type = "NaN" THEN JSNaN
    ELSE LET nums == {JSToNumber(values[k]).num : k \in DOMAIN values}
         IN  JSNumber(CHOOSE m \in nums : \A x \in nums : x <= m)

\* array.reduce((sum, a) => sum + a, 0)
RECURSIVE ReduceAdd(_)
ReduceAdd(values) ==
    IF values = <<>> THEN JSNumber(0)
    ELSE JSAdd(ReduceAdd(SubSeq(values, 1, Len(values) - 1)), values[Len(values)])

\* array.slice(from, to)
slice(values, from, to) == SubSeq(values, from + 1, Min(to, Len(values)))

\* where: { userId, processingStatus: 'completed' }
CompletedOf(userId) ==
    {i \in RowsOf(userId) : attempts[i][1].processingStatus = "completed"}

\* mutant of TakeRecent: the find has no take
TakeRecent_all(rows) == rows

\* take: 10
TakeRecent(rows) == SubSeq(rows, 1, Min(10, Len(rows)))

\* the users a query can name: the stored ones and one that has no row
QueryUserIds == DOMAIN InitialUsers \cup {"u9"}

\* the statistics getUserStatistics computes for a stored user
UserStatistics(userId) ==
    LET user == users[userId]
        found == TakeRecent(NewestFirst(CompletedOf(userId)))
        scores == [k \in 1 .. Len(found) |-> DecimalText(found[k].overallScore)]
        bestScore == MathMax(scores \o <<JSNumber(0)>>)
        recent5 == slice(scores, 0, 5)
        previous5 == slice(scores, 5, 10)
        recentAvg == IF Len(recent5) > 0
                     THEN JSDivide(ReduceAdd(recent5), Len(recent5))
                     ELSE JSNumber(0)
        previousAvg == IF Len(previous5) > 0
                       THEN JSDivide(ReduceAdd(previous5), Len(previous5))
                       ELSE recentAvg
    IN  [totalAttempts |-> user.totalAttempts,
         averageScore |-> IF user.averageScore = NullScore THEN JSNumber(0)
                          ELSE DecimalText(user.averageScore),
         bestScore |-> bestScore,
         recentImprovement |-> JSSubtract(recentAvg, previousAvg)]

\* getUserStatistics(userId): the statistics of a stored user, an error for
\* a user that has no row
getUserStatistics ==
    /\ query.pc = "none"
    /\ \E userId \in QueryUserIds :
          query' = IF userId \in DOMAIN users
                   THEN [NoQuery EXCEPT
                            !.op = "getUserStatistics",
                            !.pc = "returned",
                            !.userId = userId,
                            !.result = <<UserStatistics(userId)>>]
                   ELSE [NoQuery EXCEPT
                            !.op = "getUserStatistics",
                            !.pc = "raised",
                            !.userId = userId,
                            !.error = MkError("getUserStatistics",
                                          "User with ID " \o userId \o " not found")]
    /\ UNCHANGED <<attempts, users, run, pinned, pinataCalls, gemini, app>>

\* the findOne of the user or the find of the attempts rejects: the error
\* goes to the caller
getUserStatisticsFails ==
    /\ query.pc = "none"
    /\ \E userId \in QueryUserIds, origin \in {"findOne", "find"} :
          /\ origin = "find" => userId \in DOMAIN users
          /\ query' = [NoQuery EXCEPT
                          !.op = "getUserStatistics",
                          !.pc = "raised",
                          !.userId = userId,
                          !.error = MkError(origin, "db")]
    /\ UNCHANGED <<attempts, users, run, pinned, pinataCalls, gemini, app>>

(* --------------------- getPronunciationAttempt ------------------------- *)

\* the ids a fetch can name: those of the rows of the table, and 0, which
\* no row has
AttemptIds == 0 .. MaxRows

\* findOne({ where: { id } }) finds a row
Found(id) == id \in DOMAIN attempts /\ attempts[id] # <<>>

\* the error of getPronunciationAttempt for an id that has no row
NotFound(id) ==
    MkError("getPronunciationAttempt",
            "Pronunciation attempt with ID " \o ToString(id) \o " not found")

\* mutant of getPronunciationAttempt: a fetch that finds a row sets it back
\* to pending
getPronunciationAttempt_resets ==
    /\ query.pc = "none"
    /\ \E id \in AttemptIds :
          /\ query' = IF Found(id)
                      THEN [NoQuery EXCEPT
                               !.op = "getPronunciationAttempt",
                               !.pc = "returned",
                               !.id = id,
                               !.result = <<mapToResponse(attempts[id][1])>>]
                      ELSE [NoQuery EXCEPT
                               !.op = "getPronunciationAttempt",
                               !.pc = "raised",
                               !.id = id,
                               !.error = NotFound(id)]
          /\ attempts' = IF Found(id)
                         THEN [attempts EXCEPT ![id] =
                                  <<[attempts[id][1] EXCEPT !.processingStatus = "pending"]>>]
                         ELSE attempts
    /\ UNCHANGED <<users, run, pinned, pinataCalls, gemini, app>>

\* getPronunciationAttempt(id): the response for the row with this id, an
\* error when there is none
getPronunciationAttempt ==
    /\ query.pc = "none"
    /\ \E id \in AttemptIds :
          query' = IF Found(id)
                   THEN [NoQuery EXCEPT
                            !.op = "getPronunciationAttempt",
                            !.pc = "returned",
                            !.id = id,
                            !.result = <<mapToResponse(attempts[id][1])>>]
                   ELSE [NoQuery EXCEPT
                            !.op = "getPronunciationAttempt",
                            !.pc = "raised",
                            !.id = id,
                            !.error = NotFound(id)]
    /\ UNCHANGED <<attempts, users, run, pinned, pinataCalls, gemini, app>>

\* the findOne rejects: the error goes to the caller
getPronunciationAttemptFails ==
    /\ query.pc = "none"
    /\ \E id \in AttemptIds :
          query' = [NoQuery EXCEPT
                       !.op = "getPronunciationAttempt",
                       !.pc = "raised",
                       !.id = id,
                       !.error = MkError("findOne", "db")]
    /\ UNCHANGED <<attempts, users, run, pinned, pinataCalls, gemini, app>>

QueryNext ==
    \/ getUserPronunciationAttempts
    \/ getUserPronunciationAttemptsFails
    \/ getUserStatistics
    \/ getUserStatisticsFails
    \/ getPronunciationAttempt
    \/ getPronunciationAttemptFails

QuerySpec == QueryInit /\ [][QueryNext]_vars

(* ------------------------------- C20 ----------------------------------- *)

\* the rows of user userId that were created after row i
NewerThan(userId, i) ==
    {j \in RowsOf(userId) : attempts[j][1].createdAt > attempts[i][1].createdAt}

\* C20: getUserPronunciationAttempts(userId, page, limit) with page >= 1
\* and limit >= 1 returns the user's attempts at positions
\* (page - 1) * limit .. page * limit - 1 of the newest-first order that
\* exist, min(limit, max(0, total - (page - 1) * limit)) of them, with
\* total the number of the user's attempts and totalPages = ceil(total / limit).
C20_PageOfNewestFirst ==
    (query.op = "getUserPronunciationAttempts" /\ query.pc = "returned") =>
        LET result == query.result[1]
            total == Cardinality(RowsOf(query.userId))
            first == (query.page - 1) * query.limit
        IN  /\ result.total = total
            /\ Len(result.attempts) = Min(query.limit, Max(0, total - first))
            /\ result.totalPages * query.limit >= total
            /\ (result.totalPages - 1) * query.limit < total
            /\ \A k \in 1 .. Len(result.attempts) :
                  \E i \in RowsOf(query.userId) :
                      /\ Cardinality(NewerThan(query.userId, i)) = first + k - 1
                      /\ result.attempts[k] = mapToResponse(attempts[i][1])

\* the example: page 2 with limit 10 over 15 attempts returns 5 attempts
\* and totalPages = 2
C20_Witness ==
    /\ query.op = "getUserPronunciationAttempts"
    /\ query.pc = "returned"
    /\ query.page = 2
    /\ query.limit = 10
    /\ query.result[1].total = 15
    /\ Len(query.result[1].attempts) = 5
    /\ query.result[1].totalPages = 2

(* ------------------------------- C21 ----------------------------------- *)

\* the completed attempts of user userId created after row i
NewerCompleted(userId, i) ==
    {j \in NewerThan(userId, i) : attempts[j][1].processingStatus = "completed"}

\* the completed attempts of user userId at positions from .. to - 1 of the
\* newest-first order
CompletedAt(userId, from, to) ==
    {i \in RowsOf(userId) :
        /\ attempts[i][1].processingStatus = "completed"
        /\ Cardinality(NewerCompleted(userId, i)) >= from
        /\ Cardinality(NewerCompleted(userId, i)) < to}

\* C21: the recentImprovement getUserStatistics returns is the mean of the
\* overallScore of the user's 5 newest completed attempts minus the mean of
\* the next 5, and 0 when the user has fewer than 6 completed attempts.
C21_RecentImprovement ==
    (query.op = "getUserStatistics" /\ query.pc = "returned") =>
        LET r == query.result[1].recentImprovement
            recent == CompletedAt(query.userId, 0, 5)
            previous == CompletedAt(query.userId, 5, 10)
        IN  /\ r.type = "number"
            /\ previous = {} => r.num = 0
            /\ previous # {} =>
                  r.num * Cardinality(recent) * Cardinality(previous)
                      = Cardinality(previous) * SumOfScores(recent)
                        - Cardinality(recent) * SumOfScores(previous)

(* ------------------------------- C22 ----------------------------------- *)

\* C22: the bestScore getUserStatistics returns is the greatest overallScore
\* among the user's 10 newest attempts whose processingStatus is completed,
\* and 0 when the user has no completed attempt; attempts that are pending,
\* processing or failed are not counted.
C22_BestScoreOfRecentCompleted ==
    (query.op = "getUserStatistics" /\ query.pc = "returned") =>
        LET recent == CompletedAt(query.userId, 0, 10)
            best == query.result[1].bestScore
        IN  /\ best.type = "number"
            /\ recent = {} => best.num = 0
            /\ recent # {} =>
                  /\ \E i \in recent : attempts[i][1].overallScore = best.num
                  /\ \A i \in recent : attempts[i][1].overallScore <= best.num

\* statistics of a user with more than 10 completed attempts, of which an
\* older one scored higher than the 10 newest, and with failed attempts
C22_Witness ==
    /\ query.op = "getUserStatistics"
    /\ query.pc = "returned"
    /\ \E i \in RowsOf(query.userId) :
          /\ attempts[i][1].processingStatus = "completed"
          /\ attempts[i][1].overallScore > query.result[1].bestScore.num
    /\ \E i \in RowsOf(query.userId) : attempts[i][1].processingStatus = "failed"
    /\ query.result[1].bestScore.num > 0

(* ------------------------------- C23 ----------------------------------- *)

\* C23: a call of getPronunciationAttempt, getUserPronunciationAttempts or
\* getUserStatistics leaves every attempt row and every user row as it was,
\* whether it returns or raises; getPronunciationAttempt for an id that no
\* row has never returns: it raises the not-found error once its lookup has
\* answered, and the error of the lookup when the lookup is rejected.
C23_QueriesReadOnly ==
    [][query' # query =>
          /\ attempts' = attempts
          /\ users' = users
          /\ (query'.op = "getPronunciationAttempt" /\ ~Found(query'.id)) =>
                /\ query'.pc = "raised"
                /\ query'.error \in {NotFound(query'.id), MkError("findOne", "db")}]_vars

\* a fetch of an id that no row of a table of attempts has raised not-found
C23_Witness ==
    /\ query.op = "getPronunciationAttempt"
    /\ query.pc = "raised"
    /\ query.error = NotFound(query.id)
    /\ ~Found(query.id)
    /\ \E i \in DOMAIN attempts : Found(i)

(* ---------------------- users that have no row ------------------------- *)

\* the user tables a submission can meet: the schema synchronize builds has
\* a foreign key from attempts to users, a production schema (synchronize
\* off, migrations run by hand) need not, and then the user that a request
\* names may have no row
UserTables == {InitialUsers, [u \in {"u2"} |-> InitialUsers[u]]}

UsersInit ==
    /\ attempts = [w \in Runs |-> <<>>]
    /\ users \in UserTables
    /\ run = [w \in Runs |-> IdleRun]
    /\ pinned = {}
    /\ pinataCalls = {}
    /\ gemini = NoGeminiCall
    /\ query = NoQuery
    /\ app = ReadyApp

UsersSpec == UsersInit /\ [][Next]_vars

\* the request of run w names a user that has no row
UserAbsent(w) == run[w].userId # NoUser /\ run[w].userId \notin DOMAIN users

(* ------------------------------- C24 ----------------------------------- *)

C28_AbsentUserSkipsStatistics ==
    [][\A w \in Runs :
          (UserAbsent(w) /\ run[w].pc = "step7" /\ run'[w] # run[w]) =>
              /\ users' = users
              /\ attempts' = attempts
              /\ Row(w).processingStatus = "completed"
              /\ StepOk(w, 7)' =>
                    /\ run'[w].pc = "returned"
                    /\ run'[w].steps = AllOk(7)
                    /\ run'[w].error = NoError
                    /\ run'[w].handled = "no"
                    /\ run'[w].response = <<mapToResponse(Row(w))>>]_vars

\* a submission that names a user without a row has returned after step 7
C28_Witness ==
    \E w \in Runs :
        /\ UserAbsent(w)
        /\ StepOk(w, 7)
        /\ run[w].pc = "returned"

(* --------------------------- construction ------------------------------ *)

\* configService.get(key): undefined for a value that is missing, the empty
\* string for one that is empty
Undefined == "undefined"
ConfigValues == {Undefined, "", "set"}

\* the providers are constructed from any configuration
ConfigInit ==
    /\ attempts = [w \in Runs |-> <<>>]
    /\ users = InitialUsers
    /\ run = [w \in Runs |-> IdleRun]
    /\ pinned = {}
    /\ pinataCalls = {}
    /\ gemini = NoGeminiCall
    /\ query = NoQuery
    /\ \E config \in [ConfigKeys -> ConfigValues] :
          app = [config |-> config, built |-> {}, options |-> <<>>, error |-> NoError]

\* value || '' and the test !value: a missing and an empty value are falsy
Falsy(value) == value \in {Undefined, ""}

\* a constructor returns, or throws the error: the container constructs a
\* provider once, and stops at the first constructor that throws
Construct(provider, error) ==
    /\ app.error = NoError
    /\ provider \notin app.built
    /\ app' = IF error = NoError
              THEN [app EXCEPT !.built = @ \cup {provider}]
              ELSE [app EXCEPT !.error = error]
    /\ UNCHANGED <<attempts, users, run, pinned, pinataCalls, gemini, query>>

\* new PinataService(configService)
constructPinataService ==
    Construct("PinataService",
              IF Falsy(app.config["PINATA_JWT"])
              THEN MkError("PinataService", "PINATA_JWT is required but not provided")
              ELSE IF Falsy(app.config["PINATA_GATEWAY_URL"])
              THEN MkError("PinataService",
                           "PINATA_GATEWAY_URL is required but not provided")
              ELSE NoError)

\* new ElevenLabsService(configService)
constructElevenLabsService ==
    Construct("ElevenLabsService",
              IF Falsy(app.config["ELEVENLABS_API_KEY"])
              THEN MkError("ElevenLabsService",
                           "ELEVENLABS_API_KEY is not defined in the .env file")
              ELSE NoError)

\* new GeminiService(configService)
constructGeminiService ==
    Construct("GeminiService",
              IF Falsy(app.config["GEMINI_API_KEY"])
              THEN MkError("GeminiService", "GEMINI_API_KEY is required but not provided")
              ELSE NoError)

\* new DatabaseConfig(configService): the constructor reads nothing
constructDatabaseConfig == Construct("DatabaseConfig", NoError)

\* DatabaseConfig.createTypeOrmOptions(): url is the value as configured
createTypeOrmOptions ==
    /\ app.error = NoError
    /\ "DatabaseConfig" \in app.built
    /\ app.options = <<>>
    /\ app' = [app EXCEPT !.options = <<[url |-> app.config["DATABASE_URL"]]>>]
    /\ UNCHANGED <<attempts, users, run, pinned, pinataCalls, gemini, query>>

ConfigNext ==
    \/ constructPinataService
    \/ constructElevenLabsService
    \/ constructGeminiService
    \/ constructDatabaseConfig
    \/ createTypeOrmOptions

ConfigSpec == ConfigInit /\ [][ConfigNext]_vars

\* construction has ended without an error: every provider is constructed
\* and the connection options are made
Constructed ==
    /\ app.built = Providers
    /\ app.options # <<>>
    /\ app.error = NoError

(* ------------------------------- C25 ----------------------------------- *)

\* C25 (as claimed): construction ends without an error only when
\* PINATA_JWT, PINATA_GATEWAY_URL, GEMINI_API_KEY, ELEVENLABS_API_KEY and
\* DATABASE_URL are all set to a non-empty value.
C25_ConstructionRequiresEveryValue ==
    Constructed => \A k \in ConfigKeys : ~Falsy(app.config[k])

(* ------------------------------ liveness ------------------------------- *)

\* a step of run w after its start: an awaited call of the run returns or
\* throws
Progress(w) == Next /\ run[w].pc # "idle" /\ run'[w] # run[w]

\* the process does not stop in the middle of a run, and every call a run
\* awaits returns or throws in the end
LiveSpec == Spec /\ \A w \in Runs : WF_vars(Progress(w))

(* ------------------------------- C26 ----------------------------------- *)

\* C26 (as claimed): when every awaited call returns or throws in the end,
\* the row of every submission that created one reaches processingStatus
\* completed or failed, whichever calls fail, the status write of the
\* failure handler included.
C26_RowReachesTerminalStatus ==
    \A w \in Runs :
        HasRow(w) ~> (HasRow(w) /\ Row(w).processingStatus \in {"completed", "failed"})

(* ------------------------------- C27 ----------------------------------- *)

\* C27: under any interleaving of submissions, every step is the step of
\* one run, which writes no attempt row but the one it created in step 1
\* and no user row but, in step 7, the one its request names; no row of
\* another run and no other user is modified, no row is deleted, and a
\* submission without userId modifies no user row.
C27_RunWritesOwnRows ==
    [][\E w \in Runs :
          /\ \A v \in Runs \ {w} : attempts'[v] = attempts[v]
          /\ DOMAIN attempts' = DOMAIN attempts
          /\ \A v \in Runs : HasRow(v) => attempts'[v] # <<>>
          /\ attempts'[w] # attempts[w] => run'[w].steps # <<>> /\ run'[w].steps[1] = <<1, TRUE>>
          /\ DOMAIN users' = DOMAIN users
          /\ \A u \in DOMAIN users :
                users'[u] # users[u] =>
                    /\ run[w].pc = "step7write"
                    /\ u = run[w].userId
          /\ run[w].userId = NoUser => users' = users]_vars

\* two submissions run interleaved: one has written the user row its
\* request names in step 7 while the other, without userId, holds its own
\* row
C27_Witness ==
    \E w \in Runs, v \in Runs :
        /\ w # v
        /\ run[w].userId # NoUser
        /\ StepOk(w, 7)
        /\ users[run[w].userId].totalAttempts > 0
        /\ HasRow(v)
        /\ run[v].userId = NoUser
        /\ run[v].pc \notin {"idle", "returned", "raised"}

(* ------------------------------- C29 ----------------------------------- *)

\* C29: when the save of step 1 fails, analyzePronunciation raises that
\* error to its caller and the submission leaves no attempt row, runs no
\* later step (no upload, no AI scoring, no statistics update), and issues
\* no status update: the failure handler does not run.
C29_FailedCreateLeavesNothing ==
    \A w \in Runs :
        StepFailed(w, 1) =>
            /\ run[w].pc = "raised"
            /\ run[w].raised.origin = "createInitialAttempt"
            /\ run[w].raised.message \in DbMessages
            /\ run[w].steps = <<<<1, FALSE>>>>
            /\ run[w].handled = "no"
            /\ run[w].error = NoError
            /\ ~HasRow(w)
            /\ (\A v \in Runs \ {w} : ~HasRow(v) /\ ~StepOk(v, 1)) =>
                  /\ pinned = {}
                  /\ pinataCalls = {}
                  /\ users = InitialUsers

\* the save of step 1 of a submission has failed
C29_Witness ==
    \E w \in Runs :
        /\ StepFailed(w, 1)
        /\ run[w].pc = "raised"
        /\ ~HasRow(w)

====
